---- MODULE Spec2Model ----
(***************************************************************************)
(* Model of the stress-relief annotation subsystem (StressReliefSystem,    *)
(* ProcessScreen) and of the journal entry editor's save path              *)
(* (JournalEntry create/update mutations against the entry storage).       *)
(***************************************************************************)
EXTENDS Integers, Sequences, FiniteSets, TLC

\* ---------------------------------------------------------------- bounds
MaxHighlights == 2
MaxTime == 1
RandRange == 1
MaxUndo == 2
NumBlocks == 2
BlockLen == 1
MaxSaves == 3
MaxEdits == 2
MaxDays == 8
MaxContent == 5
MaxPlain == 3
MaxItems == 2
MaxPatches == 2
MaxZ == 3

\* ------------------------------------------------------- program values
\* the Journal page: the z-index of the main window and the first value of
\* nextZIndex; BASE_Z of the zStack version; the first value of zTopRef and
\* the z-index of its main window
MainZIndex == 100
FirstZIndex == 101
BASE_Z == 1000
FirstTop == 1000
MainTopZIndex == 1

WindowIds == {"main", "search", "entry-1", "entry-2", "view-1"}
EntryIds == {"entry-1", "entry-2"}
\* no handler opens the main window again
OpenableIds == WindowIds \ {"main"}

Emotions == {"stress", "anger", "sad", "anxious", "highlight"}
Intents == {"trash", "shred"}
ProcActions == {"shred", "trash", "stamp"}
Null == "null"
NoTime == -1
NoBlock == 0
NoEntry == 0
EntryId == "e1"

VARIABLES
  now,            \* Date.now()
  sr_highlights,  \* localStorage 'sr_highlights'
  sr_queue,       \* localStorage 'sr_queue'
  sysUndoStack,   \* StressReliefSystem.undoStack
  mounted,        \* a ProcessScreen is mounted
  highlights,     \* ProcessScreen state: highlights
  processedCount, \* ProcessScreen state: processedCount
  undoStack,      \* ProcessScreen state: undoStack
  dom,            \* the editor's paragraphs and their text nodes
  blockIds,       \* the data-block-id of each paragraph
  lastOp,         \* the handler that ran last and the way it left
  currentEntryId, \* JournalEntry state: currentEntryId
  requests,       \* the mutations of the editor, in the order of their mutate()
  createLatest,   \* the mutation createMutation observes (index, 0 for none)
  updateLatest,   \* the mutation updateMutation observes (index, 0 for none)
  entries,        \* server storage: the journal entries
  sr_lastReview,  \* localStorage 'sr_lastReview' (NoTime when not set)
  banners,        \* sr-trash-day-banner elements in the page
  ritual,         \* sr-ritual-modal elements in the page
  value,          \* RichTextEditor: the text of the entry
  selectionRange, \* RichTextEditor state: selectionRange
  selectedText,   \* RichTextEditor state: selectedText
  catharsisItems, \* the number of catharsis items made by tagging
  displayed,      \* the component whose read-only view shows the text
  displayContent, \* the markup handed to dangerouslySetInnerHTML
  applied,        \* the rules that matched, in the order of their passes
  srvCatharsis,   \* server storage: the catharsis list of the entry (item ids)
  entryCatharsisItems, \* JournalEntry state: catharsisItems
  entriesData,    \* CatharsisFolder's entries query data, the same
  entryStale,     \* the entry query has been invalidated
  entriesStale,   \* the entries query has been invalidated
  patches,        \* the PATCH requests the route has not answered yet
  madeItems,      \* the number of catharsis items made so far
  removedItems,   \* the items the user has trashed or shredded
  storedItems,    \* the items that have been in the stored list
  windows,        \* Journal state (nextZIndex version): windows
  nextZIndex,     \* Journal state (nextZIndex version): nextZIndex
  stackWindows,   \* Journal state (zStack version): the ids of windows
  zStack,         \* Journal state (zStack version): zStack
  topWindows,     \* Journal state (zTopRef version): windows
  zTopRef,        \* Journal (zTopRef version): zTopRef.current
  front           \* the window of the latest open or focus

saveVars == <<currentEntryId, requests, createLatest, updateLatest, entries>>

lifeVars == <<now, sr_highlights, sr_queue, sysUndoStack, mounted, highlights,
              processedCount, undoStack, dom, blockIds, lastOp>>

trashVars == <<sr_lastReview, banners, ritual>>

textVars == <<value, selectionRange, selectedText, catharsisItems, displayed,
              displayContent, applied>>

catVars == <<srvCatharsis, entryCatharsisItems, entriesData, entryStale,
             entriesStale, patches, madeItems, removedItems, storedItems>>

winVars == <<windows, nextZIndex, stackWindows, zStack, topWindows, zTopRef,
             front>>

vars == <<lifeVars, saveVars, trashVars, textVars, catVars, winVars>>

\* what the steps of one part of the program leave alone
offLife == <<saveVars, trashVars, textVars, catVars, winVars>>
offSave == <<lifeVars, trashVars, textVars, catVars, winVars>>
offTrash == <<saveVars, textVars, catVars, winVars>>
offText == <<lifeVars, saveVars, trashVars, catVars, winVars>>
offCat == <<lifeVars, saveVars, trashVars, textVars, winVars>>
offWin == <<lifeVars, saveVars, trashVars, textVars, catVars>>

\* ------------------------------------------------------------- helpers
IdsOf(s) == {s[i].id : i \in 1..Len(s)}

\* Array.prototype.find / findIndex on the id field: first match, 0 if none
FindIndex(s, id) ==
  IF \E i \in 1..Len(s) : s[i].id = id
  THEN CHOOSE i \in 1..Len(s) : s[i].id = id /\ \A j \in 1..(i-1) : s[j].id # id
  ELSE 0

FindQueueIndex(q, id) ==
  IF \E i \in 1..Len(q) : q[i].highlightId = id
  THEN CHOOSE i \in 1..Len(q) :
         q[i].highlightId = id /\ \A j \in 1..(i-1) : q[j].highlightId # id
  ELSE 0

IsNew(h) == h.state = "new"

NotIdFirst(s, id) ==
  LET i == FindIndex(s, id) IN
  IF i = 0 THEN s ELSE SubSeq(s, 1, i - 1) \o SubSeq(s, i + 1, Len(s))

NotId(s, id) == SelectSeq(s, LAMBDA h : h.id # id)

SumTo(f, n) == LET S[i \in 0..n] == IF i = 0 THEN 0 ELSE S[i-1] + f[i] IN S[n]

\* ---------------------------------------------------------- the records
NewHighlight(id, type, start, end, blockId, emotion, intent) ==
  [id |-> id, entryId |-> EntryId, type |-> type, start |-> start, end |-> end,
   blockId |-> blockId, emotion |-> emotion, intent |-> intent, state |-> "new",
   action |-> Null, createdAt |-> now, processedAt |-> NoTime]

\* the item's own id (aq_...) is a React key only and is left out
NewQueueItem(highlightId, emotion) ==
  [highlightId |-> highlightId, entryId |-> EntryId,
   emotion |-> emotion, state |-> "queued"]

\* persistHighlight: sr_highlights with the record pushed
persistHighlight(hls, h) == Append(hls, h)

addToQueueSkipped(q, highlightId, emotion) == q

\* addToQueue: sr_queue with a queued item pushed
addToQueue(q, highlightId, emotion) ==
  Append(q, NewQueueItem(highlightId, emotion))

\* ------------------------------------------------------------ the editor
\* A paragraph is the sequence of its text nodes in document order; chain
\* lists the data-ids of the sr-hl spans around a text node, outermost
\* first.  Text nodes of length 0 left behind by a split are not kept: they
\* add nothing to any offset and no range can be drawn inside them.
TextNode(len, chain) == [len |-> len, chain |-> chain]

EditorC == <<"editor", 0, 0>>
ParaC(b) == <<"p", b, 0>>
TextC(b, k) == <<"text", b, k>>

Sel(sc, so, ec, eo) == [sc |-> sc, so |-> so, ec |-> ec, eo |-> eo]

ChainIds(n) == {n.chain[i] : i \in 1..Len(n.chain)}

BlockText(b) == SumTo([k \in 1..Len(dom[b]) |-> dom[b][k].len], Len(dom[b]))

\* text length of paragraphs 1..b
TextUpTo(b) == SumTo([c \in 1..Len(dom) |-> BlockText(c)], b)

\* text length of the text nodes 1..k of paragraph b
NodesUpTo(b, k) == SumTo([j \in 1..Len(dom[b]) |-> dom[b][j].len], k)

\* a boundary between children of the paragraph element: no span runs over it
ParaBoundary(b, i) ==
  \/ i = 0
  \/ i = Len(dom[b])
  \/ /\ i \in 1..(Len(dom[b]) - 1)
     /\ ChainIds(dom[b][i]) \cap ChainIds(dom[b][i+1]) = {}

\* the ranges a user can draw in the editor
Selections ==
  {Sel(TextC(b, k), so, TextC(b, k), eo) :
     <<b, k, so, eo>> \in {q \in (1..Len(dom)) \X (1..(BlockLen + MaxHighlights))
                                 \X (0..BlockLen) \X (0..BlockLen) :
        /\ q[2] <= Len(dom[q[1]])
        /\ q[3] <= q[4]
        /\ q[4] <= dom[q[1]][q[2]].len}}
  \cup
  {Sel(TextC(x[1], x[2]), x[3], TextC(x[4], x[5]), x[6]) :
     x \in {q \in (1..Len(dom)) \X (1..(BlockLen + MaxHighlights)) \X (0..BlockLen)
                  \X (1..Len(dom)) \X (1..(BlockLen + MaxHighlights)) \X (0..BlockLen) :
        /\ q[2] <= Len(dom[q[1]])
        /\ q[5] <= Len(dom[q[4]])
        /\ q[3] <= dom[q[1]][q[2]].len
        /\ q[6] <= dom[q[4]][q[5]].len
        /\ (q[1] < q[4] \/ (q[1] = q[4] /\ q[2] < q[5]))}}
  \cup
  {Sel(ParaC(b), i, ParaC(b), j) :
     <<b, i, j>> \in {q \in (1..Len(dom)) \X (0..(BlockLen + MaxHighlights))
                            \X (0..(BlockLen + MaxHighlights)) :
        /\ q[2] <= q[3]
        /\ q[3] <= Len(dom[q[1]])
        /\ ParaBoundary(q[1], q[2])
        /\ ParaBoundary(q[1], q[3])}}
  \cup
  {Sel(EditorC, i, EditorC, j) :
     <<i, j>> \in {q \in (0..Len(dom)) \X (0..Len(dom)) : q[1] <= q[2]}}
  \cup
  {Sel(TextC(b, k), so, ParaC(c), 0) :
     <<b, k, so, c>> \in {q \in (1..Len(dom)) \X (1..(BlockLen + MaxHighlights))
                                \X (0..BlockLen) \X (1..Len(dom)) :
        /\ q[2] <= Len(dom[q[1]])
        /\ q[3] <= dom[q[1]][q[2]].len
        /\ q[1] < q[4]}}

\* selection.isCollapsed
isCollapsed(sel) == sel.sc = sel.ec /\ sel.so = sel.eo

\* isMultiNodeSelection: the two boundary containers are different nodes
isMultiNodeSelection(sel) == sel.sc # sel.ec

\* the paragraph a boundary point lies in; NoBlock for a point whose container
\* is the editor element itself
BlockOf(c) == IF c[1] = "editor" THEN NoBlock ELSE c[2]

\* range.toString().length
SelectedLength(sel) ==
  IF sel.sc[1] = "text" /\ sel.ec[1] = "text" THEN
    IF sel.sc = sel.ec THEN sel.eo - sel.so
    ELSE (TextUpTo(sel.ec[2] - 1) + NodesUpTo(sel.ec[2], sel.ec[3] - 1) + sel.eo)
         - (TextUpTo(sel.sc[2] - 1) + NodesUpTo(sel.sc[2], sel.sc[3] - 1) + sel.so)
  ELSE IF sel.sc[1] = "p" /\ sel.ec[1] = "p" THEN
    NodesUpTo(sel.sc[2], sel.eo) - NodesUpTo(sel.sc[2], sel.so)
  ELSE IF sel.sc[1] = "editor" THEN TextUpTo(sel.eo) - TextUpTo(sel.so)
  ELSE TextUpTo(sel.ec[2] - 1)
       - (TextUpTo(sel.sc[2] - 1) + NodesUpTo(sel.sc[2], sel.sc[3] - 1) + sel.so)

\* getTextOffset: the walker visits text nodes only, so an element container
\* is never met and the total text length is returned
getTextOffset(node, offset) ==
  IF node[1] = "text"
  THEN TextUpTo(node[2] - 1) + NodesUpTo(node[2], node[3] - 1) + offset
  ELSE TextUpTo(Len(dom))

\* Range.surroundContents throws when the range partially selects a node that
\* is not a text node: a paragraph, or a span around one boundary only
SurroundThrows(sel) ==
  IF sel.sc = sel.ec THEN FALSE
  ELSE IF BlockOf(sel.sc) # BlockOf(sel.ec) THEN TRUE
  ELSE IF sel.sc[1] = "text" /\ sel.ec[1] = "text"
       THEN ChainIds(dom[sel.sc[2]][sel.sc[3]]) # ChainIds(dom[sel.ec[2]][sel.ec[3]])
       ELSE TRUE

WrapOutcomeNoNodeCheck(sel) ==
  IF isCollapsed(sel) THEN "return"
  ELSE IF SurroundThrows(sel) THEN "threw"
  ELSE "ok"

WrapOutcomeNoCollapsedCheck(sel) ==
  IF isMultiNodeSelection(sel) THEN "multiNode"
  ELSE IF SurroundThrows(sel) THEN "threw"
  ELSE "ok"

\* srWrapSelection, lines 291-343: which way the handler leaves
WrapOutcome(sel) ==
  IF isCollapsed(sel) THEN "return"
  ELSE IF isMultiNodeSelection(sel) THEN "multiNode"
  ELSE IF SurroundThrows(sel) THEN "threw"
  ELSE "ok"

NonEmpty(nodes) == SelectSeq(nodes, LAMBDA n : n.len > 0)

\* the paragraph's text nodes after range.surroundContents(span)
WrapBlock(b, sel, id) ==
  LET nodes == dom[b] IN
  IF sel.sc[1] = "editor" THEN
    IF b > sel.so /\ b <= sel.eo
    THEN [k \in 1..Len(nodes) |-> TextNode(nodes[k].len, <<id>> \o nodes[k].chain)]
    ELSE nodes
  ELSE IF sel.sc[2] # b THEN nodes
  ELSE IF sel.sc[1] = "p" THEN
    [k \in 1..Len(nodes) |->
       IF k > sel.so /\ k <= sel.eo
       THEN TextNode(nodes[k].len, <<id>> \o nodes[k].chain) ELSE nodes[k]]
  ELSE IF sel.sc = sel.ec THEN
    LET k == sel.sc[3]
        n == nodes[k]
    IN SubSeq(nodes, 1, k - 1)
       \o NonEmpty(<<TextNode(sel.so, n.chain),
                     TextNode(sel.eo - sel.so, Append(n.chain, id)),
                     TextNode(n.len - sel.eo, n.chain)>>)
       \o SubSeq(nodes, k + 1, Len(nodes))
  ELSE
    [k \in 1..Len(nodes) |->
       IF k >= sel.sc[3] /\ k <= sel.ec[3]
       THEN TextNode(nodes[k].len, Append(nodes[k].chain, id)) ELSE nodes[k]]

\* the nodes with the span of that data-id unwrapped (srRemoveTag, 560-567)
Unwrap(id) ==
  [b \in 1..Len(dom) |->
     [k \in 1..Len(dom[b]) |->
        TextNode(dom[b][k].len,
                 SelectSeq(dom[b][k].chain, LAMBDA x : x # id))]]

DomIds == UNION {ChainIds(dom[b][k]) : <<b, k>> \in
                   {q \in (1..Len(dom)) \X (1..(BlockLen + MaxHighlights)) :
                      q[2] <= Len(dom[q[1]])}}

\* ---------------------------------------------------------------- Init
\* initializeBlockIds: `block-${Date.now()}-${index}` for each paragraph that
\* has no data-block-id yet
NewBlockIds(n) == [b \in 1..n |-> <<"block", now, b - 1>>]

Document(n) == [b \in 1..n |-> <<TextNode(BlockLen, <<>>)>>]

InitWith(doc) ==
  /\ now = 0
  /\ sr_highlights = <<>>
  /\ sr_queue = <<>>
  /\ sysUndoStack = <<>>
  /\ mounted = FALSE
  /\ highlights = <<>>
  /\ processedCount = 0
  /\ undoStack = <<>>
  /\ dom = doc
  /\ blockIds = [b \in 1..Len(doc) |-> <<"block", 0, b - 1>>]
  /\ lastOp = [op |-> "init", out |-> "done"]
  /\ currentEntryId = NoEntry
  /\ requests = <<>>
  /\ createLatest = 0
  /\ updateLatest = 0
  /\ entries = <<>>
  /\ sr_lastReview = NoTime
  /\ banners = 0
  /\ ritual = 0
  /\ value = <<>>
  /\ selectionRange = [start |-> 0, end |-> 0]
  /\ selectedText = <<>>
  /\ catharsisItems = 0
  /\ displayed = Null
  /\ displayContent = <<>>
  /\ applied = <<>>
  /\ srvCatharsis = {}
  /\ entryCatharsisItems = {}
  /\ entriesData = {}
  /\ entryStale = FALSE
  /\ entriesStale = FALSE
  /\ patches = <<>>
  /\ madeItems = 0
  /\ removedItems = {}
  /\ storedItems = {}
  /\ windows = <<[id |-> "main", type |-> "main", zIndex |-> MainZIndex,
                  entryId |-> 0, closure |-> FirstZIndex]>>
  /\ nextZIndex = FirstZIndex
  /\ stackWindows = <<"main">>
  /\ zStack = <<"main">>
  /\ topWindows = <<[id |-> "main", zIndex |-> MainTopZIndex]>>
  /\ zTopRef = FirstTop
  /\ front = "main"

\* Date.now() moves on
Tick ==
  /\ now < MaxTime
  /\ now' = now + 1
  /\ UNCHANGED <<sr_highlights, sr_queue, sysUndoStack, mounted, highlights,
                 processedCount, undoStack, dom, lastOp>>
  /\ UNCHANGED blockIds

\* ------------------------------------------------- StressReliefSystem
\* `hl_${Date.now()}_${Math.random()...}` and the block form of it
HighlightId(r) == <<"hl", now, r>>
BlockHighlightId(r) == <<"hl_block", now, r>>

Left(op, out) == [op |-> op, out |-> out]

\* the toast a handler shows on leaving (the fixed part of its text), Null for
\* none
Toast(l) ==
  CASE l.op = "srWrapSelection" /\ l.out = "ok" -> "Marked as"
    [] l.op = "srWrapSelection" /\ l.out = "multiNode" ->
         "Please select text within a single paragraph"
    [] l.op = "srWrapSelection" /\ l.out = "threw" -> "Could not tag selection"
    [] l.op = "srTagBlock" -> "Paragraph marked as"
    [] l.op = "srRemoveTag" -> "Tag removed"
    [] l.op = "updateHighlightIntent" /\ l.out = "done" -> "Marked for"
    [] l.op \in {"srProcessAction", "handleProcessAction"} /\ l.out = "done" -> "Item"
    [] OTHER -> Null

srWrapSelection(sel, emotion, intent, r) ==
  LET outcome == WrapOutcome(sel)
      id == HighlightId(r)
      start == getTextOffset(sel.sc, sel.so)
      end == start + SelectedLength(sel)
  IN
  /\ lastOp' = Left("srWrapSelection", outcome)
  /\ IF outcome = "ok" THEN
       /\ Len(sr_highlights) < MaxHighlights
       /\ dom' = [b \in 1..Len(dom) |-> WrapBlock(b, sel, id)]
       /\ sr_highlights' = persistHighlight(sr_highlights,
            NewHighlight(id, "range", start, end, NoBlock, emotion, intent))
       /\ sr_queue' = addToQueue(sr_queue, id, emotion)
     ELSE
       UNCHANGED <<dom, sr_highlights, sr_queue>>
  /\ UNCHANGED <<now, sysUndoStack, mounted, highlights, processedCount, undoStack>>
  /\ UNCHANGED blockIds

\* the sr-block-tag--* class put on the paragraph is presentation only
srTagBlock(b, emotion, r) ==
  LET id == BlockHighlightId(r) IN
  /\ Len(sr_highlights) < MaxHighlights
  /\ sr_highlights' = persistHighlight(sr_highlights,
       NewHighlight(id, "block", NoTime, NoTime, blockIds[b], emotion, Null))
  /\ sr_queue' = addToQueue(sr_queue, id, emotion)
  /\ lastOp' = Left("srTagBlock", "done")
  /\ UNCHANGED <<now, sysUndoStack, mounted, highlights, processedCount, undoStack,
                 dom>>
  /\ UNCHANGED blockIds

srRemoveTag(id) ==
  /\ dom' = Unwrap(id)
  /\ sr_highlights' = NotId(sr_highlights, id)
  /\ sr_queue' = SelectSeq(sr_queue, LAMBDA q : q.highlightId # id)
  /\ lastOp' = Left("srRemoveTag", "done")
  /\ UNCHANGED <<now, sysUndoStack, mounted, highlights, processedCount, undoStack>>
  /\ UNCHANGED blockIds

updateHighlightIntentAsAction(id, intent) ==
  LET i == FindIndex(sr_highlights, id) IN
  /\ IF i # 0
     THEN sr_highlights' = [sr_highlights EXCEPT ![i].intent = intent,
                                                 ![i].action = intent]
     ELSE UNCHANGED sr_highlights
  /\ lastOp' = Left("updateHighlightIntent", IF i # 0 THEN "done" ELSE "noop")
  /\ UNCHANGED <<now, sr_queue, sysUndoStack, mounted, highlights, processedCount,
                 undoStack, dom, blockIds>>

updateHighlightIntent(id, intent) ==
  LET i == FindIndex(sr_highlights, id) IN
  /\ IF i # 0
     THEN sr_highlights' = [sr_highlights EXCEPT ![i].intent = intent]
     ELSE UNCHANGED sr_highlights
  /\ lastOp' = Left("updateHighlightIntent", IF i # 0 THEN "done" ELSE "noop")
  /\ UNCHANGED <<now, sr_queue, sysUndoStack, mounted, highlights, processedCount,
                 undoStack, dom>>
  /\ UNCHANGED blockIds

\* srProcessAction, 599-644, as the values it leaves in storage and on the
\* instance; the highlight's state is not looked at before it is overwritten.
\* The sr-shredded / sr-trashed / sr-stamped class is presentation only.
ProcessedHighlightsNoAction(hls, id, action) ==
  LET i == FindIndex(hls, id) IN
  IF i = 0 THEN hls
  ELSE [hls EXCEPT ![i].state = "processed", ![i].processedAt = now]

ProcessedHighlights(hls, id, action) ==
  LET i == FindIndex(hls, id) IN
  IF i = 0 THEN hls
  ELSE [hls EXCEPT ![i].state = "processed", ![i].action = action,
                   ![i].processedAt = now]

ProcessedQueue(hls, q, id) ==
  LET j == FindQueueIndex(q, id) IN
  IF FindIndex(hls, id) = 0 \/ j = 0 THEN q
  ELSE [q EXCEPT ![j].state = "done"]

UndoRecord(id) ==
  [action |-> "process",
   data |-> [highlightId |-> id, previousState |-> "new", previousAction |-> Null]]

PushedSysUndo(hls, stack, id) ==
  IF FindIndex(hls, id) = 0 THEN stack ELSE Append(stack, UndoRecord(id))

srProcessActionEffect(id, action) ==
  /\ sr_highlights' = ProcessedHighlights(sr_highlights, id, action)
  /\ sr_queue' = ProcessedQueue(sr_highlights, sr_queue, id)
  /\ sysUndoStack' = PushedSysUndo(sr_highlights, sysUndoStack, id)

ProcessLeft(id) == IF FindIndex(sr_highlights, id) # 0 THEN "done" ELSE "noop"

\* the method called on window.stressReliefInstance by any holder of an id
srProcessAction(id, action) ==
  /\ Len(sysUndoStack) < MaxUndo
  /\ srProcessActionEffect(id, action)
  /\ lastOp' = Left("srProcessAction", ProcessLeft(id))
  /\ UNCHANGED <<now, mounted, highlights, processedCount, undoStack, dom>>
  /\ UNCHANGED blockIds

\* ------------------------------------------------------- ProcessScreen
\* mount: useState initial values, then the effect's loadNewHighlights
loadNewHighlights == SelectSeq(sr_highlights, IsNew)

Mount ==
  /\ ~mounted
  /\ mounted' = TRUE
  /\ highlights' = loadNewHighlights
  /\ processedCount' = 0
  /\ undoStack' = <<>>
  /\ lastOp' = Left("mount", "done")
  /\ UNCHANGED <<now, sr_highlights, sr_queue, sysUndoStack, dom>>
  /\ UNCHANGED blockIds

\* onClose: the component unmounts and its state is gone
Unmount ==
  /\ mounted
  /\ mounted' = FALSE
  /\ highlights' = <<>>
  /\ processedCount' = 0
  /\ undoStack' = <<>>
  /\ lastOp' = Left("unmount", "done")
  /\ UNCHANGED <<now, sr_highlights, sr_queue, sysUndoStack, dom>>
  /\ UNCHANGED blockIds

handleProcessAction(id, action) ==
  LET i == FindIndex(highlights, id) IN
  /\ mounted
  /\ i # 0
  /\ Len(sysUndoStack) < MaxUndo
  /\ undoStack' = Append(undoStack, [id |-> id, previousState |-> highlights[i]])
  /\ srProcessActionEffect(id, action)
  /\ highlights' = NotId(highlights, id)
  /\ processedCount' = processedCount + 1
  /\ lastOp' = Left("handleProcessAction", ProcessLeft(id))
  /\ UNCHANGED <<now, mounted, dom>>
  /\ UNCHANGED blockIds

UndoneHighlightsStateOnly(hls, stack, id) ==
  LET u == FindIndex(stack, id)
      i == FindIndex(hls, id)
  IN IF u = 0 \/ i = 0 THEN hls ELSE [hls EXCEPT ![i].state = "new"]

UndoneQueueNoCheck(hls, q, stack, id) ==
  LET j == FindQueueIndex(q, id) IN
  IF FindIndex(hls, id) = 0 \/ j = 0 THEN q
  ELSE [q EXCEPT ![j].state = "queued"]

UndoneHighlightsRecreated(hls, stack, id) ==
  LET u == FindIndex(stack, id)
      i == FindIndex(hls, id)
  IN IF u = 0 THEN hls
     ELSE IF i = 0 THEN Append(hls, stack[u].previousState)
     ELSE [hls EXCEPT ![i] = stack[u].previousState]

\* the highlight list and the queue as handleUndo leaves them in storage
UndoneHighlights(hls, stack, id) ==
  LET u == FindIndex(stack, id)
      i == FindIndex(hls, id)
  IN IF u = 0 \/ i = 0 THEN hls ELSE [hls EXCEPT ![i] = stack[u].previousState]

UndoneQueue(hls, q, stack, id) ==
  LET j == FindQueueIndex(q, id) IN
  IF FindIndex(stack, id) = 0 \/ FindIndex(hls, id) = 0 \/ j = 0 THEN q
  ELSE [q EXCEPT ![j].state = "queued"]

handleUndo(id) ==
  LET u == FindIndex(undoStack, id)
      i == FindIndex(sr_highlights, id)
  IN
  /\ mounted
  /\ sr_highlights' = UndoneHighlights(sr_highlights, undoStack, id)
  /\ sr_queue' = UndoneQueue(sr_highlights, sr_queue, undoStack, id)
  /\ IF u # 0 /\ i # 0
     THEN /\ highlights' = Append(highlights, undoStack[u].previousState)
          /\ processedCount' = processedCount - 1
          /\ undoStack' = NotId(undoStack, id)
     ELSE UNCHANGED <<highlights, processedCount, undoStack>>
  /\ lastOp' = Left("handleUndo", IF u # 0 /\ i # 0 THEN "done" ELSE "noop")
  /\ UNCHANGED <<now, sysUndoStack, mounted, dom>>
  /\ UNCHANGED blockIds

\* ----------------------------------------------------------------- Next
StoredIds == IdsOf(sr_highlights)
KnownIds == StoredIds \cup IdsOf(highlights) \cup IdsOf(undoStack)

\* The review life cycle: a one-paragraph document, two of the emotions, two
\* of the actions.  The ProcessScreen is a full-window overlay (fixed inset-0),
\* so the editor cannot be tagged while it is mounted; srRemoveTag and
\* srProcessAction are methods of the shared instance and can be called by
\* another holder of an id at any time.
LifeEmotions == {"stress", "anger"}
LifeActions == {"shred", "trash"}

Init == InitWith(Document(1))

Next ==
  \/ Tick /\ UNCHANGED offLife
  \/ \E sel \in Selections, e \in LifeEmotions, r \in 1..RandRange :
       ~mounted /\ srWrapSelection(sel, e, Null, r) /\ UNCHANGED offLife
  \/ \E b \in 1..Len(dom), e \in LifeEmotions, r \in 1..RandRange :
       ~mounted /\ srTagBlock(b, e, r) /\ UNCHANGED offLife
  \/ \E id \in StoredIds : srRemoveTag(id) /\ UNCHANGED offLife
  \/ \E id \in DomIds :
       ~mounted /\ updateHighlightIntent(id, "shred") /\ UNCHANGED offLife
  \/ \E id \in StoredIds, a \in LifeActions :
       srProcessAction(id, a) /\ UNCHANGED offLife
  \/ Mount /\ UNCHANGED offLife
  \/ Unmount /\ UNCHANGED offLife
  \/ \E id \in IdsOf(highlights), a \in LifeActions :
       handleProcessAction(id, a) /\ UNCHANGED offLife
  \/ \E id \in KnownIds : handleUndo(id) /\ UNCHANGED offLife

Spec == Init /\ [][Next]_vars

\* ------------------------------------------------ a processing session
\* the count the header of the ProcessScreen shows and Finish Session waits for
remainingCount == Len(highlights) - processedCount

\* Tagging with the screen closed, then sessions in which the store changes
\* through the ProcessScreen only.
SessionInit == InitWith(Document(1))

SessionNext ==
  \/ Tick /\ UNCHANGED offLife
  \/ \E r \in 1..RandRange :
       ~mounted /\ srTagBlock(1, "stress", r) /\ UNCHANGED offLife
  \/ Mount /\ UNCHANGED offLife
  \/ Unmount /\ UNCHANGED offLife
  \/ \E id \in IdsOf(highlights) :
       handleProcessAction(id, "trash") /\ UNCHANGED offLife
  \/ \E id \in KnownIds : handleUndo(id) /\ UNCHANGED offLife

SessionSpec == SessionInit /\ [][SessionNext]_vars

\* ---------------------------------------------------- load of an entry
\* The host shows the entry again from its stored text: the paragraphs are new
\* elements without spans and without data-block-id, and srInitEditor runs on
\* them (initializeBlockIds, restoreHighlights).
FreshDom == [b \in 1..Len(dom) |-> <<TextNode(BlockText(b), <<>>)>>]

\* restoreHighlights, 708-712: the loop over the range highlights has no body
RestoredRanges(hls) == {}

\* restoreHighlights, 714-720: the block highlights whose blockId is the
\* data-block-id of a paragraph get their class back
RestoredBlocks(hls, ids) ==
  {hls[i].id : i \in {j \in 1..Len(hls) :
      /\ hls[j].entryId = EntryId
      /\ hls[j].type = "block"
      /\ \E b \in 1..Len(ids) : ids[b] = hls[j].blockId}}

srInitEditor ==
  /\ dom' = FreshDom
  /\ blockIds' = NewBlockIds(Len(dom))
  /\ lastOp' = Left("srInitEditor", "done")
  /\ UNCHANGED <<now, sr_highlights, sr_queue, sysUndoStack, mounted, highlights,
                 processedCount, undoStack>>

\* Tagging in a document of NumBlocks paragraphs: every range of Selections,
\* one emotion, and the removal of tags.
SelInit == InitWith(Document(NumBlocks))

SelNext ==
  \/ Tick /\ UNCHANGED offLife
  \/ \E sel \in Selections, r \in 1..RandRange :
       srWrapSelection(sel, "highlight", Null, r) /\ UNCHANGED offLife
  \/ \E id \in StoredIds : srRemoveTag(id) /\ UNCHANGED offLife
  \/ \E b \in 1..Len(dom), r \in 1..RandRange :
       srTagBlock(b, "highlight", r) /\ UNCHANGED offLife
  \/ srInitEditor /\ UNCHANGED offLife

SelSpec == SelInit /\ [][SelNext]_vars

\* -------------------------------------------------- JournalEntry saves
\* One editor window opened without an entryId.  A mutation is "sent" until
\* the route has answered, then "ok" or "failed" until the client has run its
\* callbacks, then "settled".  data is the editor content the save carries.
Mutation(kind, target, data) ==
  [kind |-> kind, target |-> target, data |-> data, stage |-> "sent", result |-> NoEntry]

InFlight == {i \in 1..Len(requests) : requests[i].stage # "settled"}

\* useMutation's isPending: the mutation the hook observes has not settled
isPending(latest) == latest # 0 /\ requests[latest].stage # "settled"

\* the content of the editor: it changes between saves as the user types
Content == Len(requests) % (MaxEdits + 1)

handleSubmit ==
  /\ Len(requests) < MaxSaves
  /\ IF currentEntryId # NoEntry
     THEN /\ requests' = Append(requests, Mutation("PATCH", currentEntryId, Content))
          /\ updateLatest' = Len(requests) + 1
          /\ UNCHANGED createLatest
     ELSE /\ requests' = Append(requests, Mutation("POST", NoEntry, Content))
          /\ createLatest' = Len(requests) + 1
          /\ UNCHANGED updateLatest
  /\ UNCHANGED <<currentEntryId, entries>>

\* the Save Entry button: disabled while either hook is pending
ClickSave ==
  /\ ~(isPending(createLatest) \/ isPending(updateLatest))
  /\ handleSubmit

\* Cmd/Ctrl+S: onSave calls handleSubmit
KeySave == handleSubmit

\* storage.createJournalEntry: a record under a fresh id
createJournalEntry(es, data) == Append(es, [id |-> Len(es) + 1, data |-> data])

\* storage.updateJournalEntry: the record of that id with the data merged in
updateJournalEntry(es, id, data) ==
  [k \in 1..Len(es) |-> IF es[k].id = id THEN [es[k] EXCEPT !.data = data] ELSE es[k]]

\* the POST or PATCH route answering 201/200
RouteOk(i) ==
  /\ i \in 1..Len(requests)
  /\ requests[i].stage = "sent"
  /\ IF requests[i].kind = "POST"
     THEN /\ entries' = createJournalEntry(entries, requests[i].data)
          /\ requests' = [requests EXCEPT ![i].stage = "ok",
                                          ![i].result = Len(entries) + 1]
     ELSE /\ \E k \in 1..Len(entries) : entries[k].id = requests[i].target
          /\ entries' = updateJournalEntry(entries, requests[i].target, requests[i].data)
          /\ requests' = [requests EXCEPT ![i].stage = "ok",
                                          ![i].result = requests[i].target]
  /\ UNCHANGED <<currentEntryId, createLatest, updateLatest>>

\* the route answering 400 or 500: nothing is stored
RouteFail(i) ==
  /\ i \in 1..Len(requests)
  /\ requests[i].stage = "sent"
  /\ requests' = [requests EXCEPT ![i].stage = "failed"]
  /\ UNCHANGED <<currentEntryId, createLatest, updateLatest, entries>>

\* the mutation settles in the client; createMutation's onSuccess keeps the id
Settle(i) ==
  /\ i \in 1..Len(requests)
  /\ requests[i].stage \in {"ok", "failed"}
  /\ requests' = [requests EXCEPT ![i].stage = "settled"]
  /\ currentEntryId' =
       IF requests[i].stage = "ok" /\ requests[i].kind = "POST"
       THEN requests[i].result ELSE currentEntryId
  /\ UNCHANGED <<createLatest, updateLatest, entries>>

SaveInit == InitWith(Document(1))

SaveNext ==
  \/ ClickSave /\ UNCHANGED offSave
  \/ KeySave /\ UNCHANGED offSave
  \/ \E i \in 1..MaxSaves : RouteOk(i) /\ UNCHANGED offSave
  \/ \E i \in 1..MaxSaves : RouteFail(i) /\ UNCHANGED offSave
  \/ \E i \in 1..MaxSaves : Settle(i) /\ UNCHANGED offSave

SaveSpec == SaveInit /\ [][SaveNext]_vars

\* ------------------------------------------------------------ trash day
Day == 24 * 60 * 60 * 1000
sevenDays == 7 * 24 * 60 * 60 * 1000

Queued(q) == SelectSeq(q, LAMBDA x : x.state = "queued")

TrashDayDueWithoutReview == Len(Queued(sr_queue)) > 0

\* checkTrashDay, 729-740: the condition under which showTrashDayBanner runs
TrashDayDue ==
  /\ (sr_lastReview = NoTime \/ now - sr_lastReview >= sevenDays)
  /\ Len(Queued(sr_queue)) > 0

DayPasses ==
  /\ now < MaxDays * Day
  /\ now' = now + Day
  /\ UNCHANGED <<sr_highlights, sr_queue, sysUndoStack, mounted, highlights,
                 processedCount, undoStack, dom, blockIds, lastOp>>
  /\ UNCHANGED trashVars

\* a page load: what the page held in memory and in its body is gone, and the
\* constructor of the new StressReliefSystem runs checkTrashDay
constructor ==
  /\ sysUndoStack' = <<>>
  /\ mounted' = FALSE
  /\ highlights' = <<>>
  /\ processedCount' = 0
  /\ undoStack' = <<>>
  /\ banners' = IF TrashDayDue THEN 1 ELSE 0
  /\ ritual' = 0
  /\ lastOp' = Left("constructor", IF TrashDayDue THEN "banner" ELSE "done")
  /\ UNCHANGED <<now, sr_highlights, sr_queue, dom, blockIds, sr_lastReview>>

\* showPostEntryRitual, 771-825: the modal, when something is queued
showPostEntryRitual == IF Len(Queued(sr_queue)) = 0 THEN ritual ELSE ritual + 1

\* the banner's Process Now button
BannerProcessNow ==
  /\ banners > 0
  /\ ritual' = showPostEntryRitual
  /\ banners' = banners - 1
  /\ lastOp' = Left("bannerProcessNow", "done")
  /\ UNCHANGED <<now, sr_highlights, sr_queue, sysUndoStack, mounted, highlights,
                 processedCount, undoStack, dom, blockIds, sr_lastReview>>

\* the banner's Snooze button
BannerSnooze ==
  /\ banners > 0
  /\ sr_lastReview' = now
  /\ banners' = banners - 1
  /\ lastOp' = Left("bannerSnooze", "done")
  /\ UNCHANGED <<now, sr_highlights, sr_queue, sysUndoStack, mounted, highlights,
                 processedCount, undoStack, dom, blockIds, ritual>>

\* the modal's Process Now button: showProcessScreen only logs
RitualProcessNow ==
  /\ ritual > 0
  /\ ritual' = ritual - 1
  /\ lastOp' = Left("ritualProcessNow", "done")
  /\ UNCHANGED <<now, sr_highlights, sr_queue, sysUndoStack, mounted, highlights,
                 processedCount, undoStack, dom, blockIds, sr_lastReview, banners>>

\* the modal's Later button
RitualLater ==
  /\ ritual > 0
  /\ ritual' = ritual - 1
  /\ lastOp' = Left("ritualLater", "done")
  /\ UNCHANGED <<now, sr_highlights, sr_queue, sysUndoStack, mounted, highlights,
                 processedCount, undoStack, dom, blockIds, sr_lastReview, banners>>

\* ProcessScreen.handleComplete: the review is recorded and the screen closes
handleComplete ==
  /\ sr_lastReview' = now
  /\ Unmount
  /\ UNCHANGED <<banners, ritual>>

TrashInit == InitWith(Document(1))

TrashNext ==
  \/ DayPasses /\ UNCHANGED offTrash
  \/ constructor /\ UNCHANGED offTrash
  \/ \E r \in 1..RandRange :
       srTagBlock(1, "stress", r) /\ UNCHANGED trashVars /\ UNCHANGED offTrash
  \/ \E id \in StoredIds :
       srProcessAction(id, "trash") /\ UNCHANGED trashVars /\ UNCHANGED offTrash
  \/ Mount /\ UNCHANGED trashVars /\ UNCHANGED offTrash
  \/ handleComplete /\ UNCHANGED offTrash
  \/ BannerProcessNow /\ UNCHANGED offTrash
  \/ BannerSnooze /\ UNCHANGED offTrash
  \/ RitualProcessNow /\ UNCHANGED offTrash
  \/ RitualLater /\ UNCHANGED offTrash

TrashSpec == TrashInit /\ [][TrashNext]_vars

\* ----------------------------------------------------------------- text
\* A text is a sequence of tokens. A token is one character, or one of the
\* lexemes below, which stand for their characters in that order.
Open == "[stress-angry]"
Close == "[/stress-angry]"
Hash == "# "
Dash == "- "
Bullet == "(bullet) "

PlainAlphabet == {"&", "<", ">", "p", "x"}
MarkAlphabet == {"x", "*", "_", Open, Close, Hash}

\* the markup the converters write; attributes are left out
GeneratedTags == {"<h1>", "</h1>", "<span>", "</span>", "<strong>", "</strong>",
                  "<em>", "</em>", "<u>", "</u>", "<br>"}

Letters == {"p", "x", "a", "m", "l", "t", "g", "h", "s", "r", "o", "n", "e"}

Converters == {"FormattedTextDisplay", "part_006", "part_007", "RichTextEditor"}

NoRange == [start |-> 0, end |-> 0]

FirstChar(t) ==
  CASE t \in {Open, Close} -> "["
    [] t = Hash -> "#"
    [] t = Dash -> "-"
    [] t \in GeneratedTags -> "<"
    [] OTHER -> t

LastChar(t) ==
  CASE t \in {Open, Close} -> "]"
    [] t \in {Hash, Dash, Bullet} -> " "
    [] t \in GeneratedTags -> ">"
    [] OTHER -> t

CharLen(t) ==
  CASE t = Open -> 14
    [] t = Close -> 15
    [] t \in {Hash, Dash, Bullet} -> 2
    [] OTHER -> 1

RECURSIVE TextLen(_)
TextLen(text) == IF text = <<>> THEN 0 ELSE CharLen(Head(text)) + TextLen(Tail(text))

\* String.prototype.trim, as far as the length goes
TrimmedLen(text) ==
  IF text = <<>> THEN 0
  ELSE TextLen(text) - (IF LastChar(text[Len(text)]) = " " THEN 1 ELSE 0)

HasAt(text, i, d) ==
  /\ i >= 1
  /\ i + Len(d) - 1 <= Len(text)
  /\ SubSeq(text, i, i + Len(d) - 1) = d

Includes(text, needle) == \E i \in 1..Len(text) : HasAt(text, i, needle)

\* the character before position i and the character at position i ("" at the
\* ends of the text)
PrevChar(text, i) == IF i > 1 /\ i - 1 <= Len(text) THEN LastChar(text[i - 1]) ELSE ""
NextChar(text, i) == IF i >= 1 /\ i <= Len(text) THEN FirstChar(text[i]) ELSE ""

isSpace(c) == c = " "
isWord(c) == c \in Letters \/ c = "_"

RECURSIVE ReplaceAll(_, _, _)
ReplaceAll(text, c, by) ==
  IF text = <<>> THEN <<>>
  ELSE (IF Head(text) = c THEN by ELSE <<Head(text)>>) \o ReplaceAll(Tail(text), c, by)

escapeHtml(text) ==
  ReplaceAll(ReplaceAll(ReplaceAll(text, "&", <<"&", "a", "m", "p", ";">>),
                        "<", <<"&", "l", "t", ";">>),
             ">", <<"&", "g", "t", ";">>)

isLexicalHtml(content) ==
  \/ Includes(content, <<"<", "p">>)
  \/ Includes(content, <<"<", "h", "1">>)
  \/ Includes(content, <<"<", "s", "t", "r", "o", "n", "g">>)
  \/ Includes(content, <<"<", "e", "m">>)

\* the three ways the converters write their patterns
Style(conv) ==
  CASE conv \in {"FormattedTextDisplay", "part_006"} -> "lookaround"
    [] conv = "part_007" -> "class"
    [] OTHER -> "lazy"

Pipeline(conv) ==
  CASE conv \in {"FormattedTextDisplay", "part_006"} ->
         <<"escape", "heading", "list", "span", "bold", "italic", "underline">>
    [] conv = "part_007" ->
         <<"heading", "bold", "italic", "underline", "span", "br">>
    [] OTHER ->
         <<"bold", "italic", "underline", "highlight", "span", "br">>

OpenDelim(rule) ==
  CASE rule = "bold" -> <<"*", "*">>
    [] rule = "italic" -> <<"*">>
    [] rule = "underline" -> <<"_">>
    [] rule = "highlight" -> <<"[highlight-yellow]">>
    [] OTHER -> <<Open>>

CloseDelim(rule) ==
  CASE rule = "bold" -> <<"*", "*">>
    [] rule = "italic" -> <<"*">>
    [] rule = "underline" -> <<"_">>
    [] rule = "highlight" -> <<"[/highlight-yellow]">>
    [] OTHER -> <<Close>>

OpenTag(rule) ==
  CASE rule = "bold" -> "<strong>"
    [] rule = "italic" -> "<em>"
    [] rule = "underline" -> "<u>"
    [] OTHER -> "<span>"

CloseTag(rule) ==
  CASE rule = "bold" -> "</strong>"
    [] rule = "italic" -> "</em>"
    [] rule = "underline" -> "</u>"
    [] OTHER -> "</span>"

\* the characters a [^c]+ group of part_007 keeps out
Excluded(rule) ==
  CASE rule \in {"bold", "italic"} -> {"*"}
    [] rule = "underline" -> {"_"}
    [] OTHER -> {Open, Close, "[highlight-yellow]", "[/highlight-yellow]"}

\* the look-behinds and look-aheads of FormattedTextDisplay.tsx 48-59; s is
\* where the opening marker starts, e where the closing marker starts
LookaroundOk(rule, text, s, e) ==
  CASE rule = "bold" ->
         /\ PrevChar(text, s) # "*"
         /\ ~isSpace(NextChar(text, s + 2))
         /\ ~isSpace(PrevChar(text, e))
         /\ NextChar(text, e + 2) # "*"
    [] rule = "italic" ->
         /\ PrevChar(text, s) # "*"
         /\ NextChar(text, s + 1) # "*" /\ ~isSpace(NextChar(text, s + 1))
         /\ ~isSpace(PrevChar(text, e))
         /\ NextChar(text, e + 1) # "*"
    [] rule = "underline" ->
         /\ ~isWord(PrevChar(text, s))
         /\ NextChar(text, s + 1) # "_" /\ ~isSpace(NextChar(text, s + 1))
         /\ ~isSpace(PrevChar(text, e))
         /\ ~isWord(NextChar(text, e + 1))
    [] OTHER -> TRUE

BodyOk(style, rule, body) ==
  IF style = "class"
  THEN body # <<>> /\ \A i \in 1..Len(body) : body[i] \notin Excluded(rule)
  ELSE TRUE

\* the positions at which the closing marker of a match that starts at s can
\* start
MatchEnds(style, rule, text, s) ==
  {e \in (s + Len(OpenDelim(rule)))..Len(text) :
     /\ HasAt(text, e, CloseDelim(rule))
     /\ BodyOk(style, rule, SubSeq(text, s + Len(OpenDelim(rule)), e - 1))
     /\ (style = "lookaround" => LookaroundOk(rule, text, s, e))}

Least(S) == CHOOSE e \in S : \A f \in S : e <= f

\* String.prototype.replace with a global pattern: leftmost match first, the
\* group as short as the pattern allows, then on from behind the match
RECURSIVE ReplaceFrom(_, _, _, _)
ReplaceFrom(style, rule, text, i) ==
  IF i > Len(text) THEN <<>>
  ELSE IF HasAt(text, i, OpenDelim(rule)) /\ MatchEnds(style, rule, text, i) # {}
  THEN LET e == Least(MatchEnds(style, rule, text, i))
       IN <<OpenTag(rule)>> \o SubSeq(text, i + Len(OpenDelim(rule)), e - 1)
            \o <<CloseTag(rule)>>
            \o ReplaceFrom(style, rule, text, e + Len(CloseDelim(rule)))
  ELSE <<text[i]>> \o ReplaceFrom(style, rule, text, i + 1)

\* ^# (.+)$ on a text of one line
HeadingPass(text) ==
  IF Len(text) > 1 /\ text[1] = Hash
  THEN <<"<h1>">> \o Tail(text) \o <<"</h1>">>
  ELSE text

\* ^- (.+)$ on a text of one line
ListPass(text) ==
  IF Len(text) > 1 /\ text[1] = Dash THEN <<Bullet>> \o Tail(text) ELSE text

Pass(style, rule, text) ==
  CASE rule = "escape" -> escapeHtml(text)
    [] rule = "heading" -> HeadingPass(text)
    [] rule = "list" -> ListPass(text)
    [] rule = "br" -> ReplaceAll(text, "\n", <<"<br>">>)
    [] OTHER -> ReplaceFrom(style, rule, text, 1)

\* the passes of a converter from the k-th on; log takes the rules that
\* changed the text
RECURSIVE Run(_, _, _, _)
Run(conv, k, text, log) ==
  IF k > Len(Pipeline(conv)) THEN [html |-> text, applied |-> log]
  ELSE LET rule == Pipeline(conv)[k]
           out == Pass(Style(conv), rule, text)
       IN Run(conv, k + 1, out, IF out # text THEN Append(log, rule) ELSE log)

convertToHtml(conv, text) == Run(conv, 1, text, <<>>)

Rendered(conv, content) ==
  IF conv = "FormattedTextDisplay" /\ isLexicalHtml(content)
  THEN [html |-> content, applied |-> <<>>]
  ELSE convertToHtml(conv, content)

\* the text the browser shows for a markup: tags are taken out, the three
\* character references are decoded
RECURSIVE SkipTag(_, _)
SkipTag(html, i) ==
  IF i > Len(html) THEN i
  ELSE IF html[i] = ">" THEN i + 1
  ELSE SkipTag(html, i + 1)

RECURSIVE BrowserText(_, _)
BrowserText(html, i) ==
  IF i > Len(html) THEN <<>>
  ELSE IF html[i] \in GeneratedTags THEN BrowserText(html, i + 1)
  ELSE IF html[i] = "<" /\ NextChar(html, i + 1) \in Letters
  THEN BrowserText(html, SkipTag(html, i + 1))
  ELSE IF HasAt(html, i, <<"&", "a", "m", "p", ";">>)
  THEN <<"&">> \o BrowserText(html, i + 5)
  ELSE IF HasAt(html, i, <<"&", "l", "t", ";">>)
  THEN <<"<">> \o BrowserText(html, i + 4)
  ELSE IF HasAt(html, i, <<"&", "g", "t", ";">>)
  THEN <<">">> \o BrowserText(html, i + 4)
  ELSE <<html[i]>> \o BrowserText(html, i + 1)

\* String.prototype.substring(from, to) with from <= to: both ends are clamped
\* to the length of the text
substring(text, from, to) ==
  LET clamp(n) == IF n > Len(text) THEN Len(text) ELSE n
  IN SubSeq(text, clamp(from) + 1, clamp(to))

\* typing at the end of the text
handleInput(t, max) ==
  /\ Len(value) < max
  /\ value' = Append(value, t)
  /\ displayed' = Null
  /\ displayContent' = <<>>
  /\ applied' = <<>>
  /\ UNCHANGED <<selectionRange, selectedText, catharsisItems>>

\* a key that takes the token at offset p out of the text; the popover of a
\* selection made before stays open, it closes on Escape or on a mouse press
\* outside it only
handleInputDeleted(p) ==
  /\ p < Len(value)
  /\ value' = SubSeq(value, 1, p) \o SubSeq(value, p + 2, Len(value))
  /\ displayed' = Null
  /\ displayContent' = <<>>
  /\ applied' = <<>>
  /\ UNCHANGED <<selectionRange, selectedText, catharsisItems>>

\* a selection from offset start up to offset end, in tokens from 0
handleTextSelection(start, end) ==
  /\ start < end
  /\ end <= Len(value)
  /\ TrimmedLen(SubSeq(value, start + 1, end)) > 2
  /\ selectionRange' = [start |-> start, end |-> end]
  /\ selectedText' = SubSeq(value, start + 1, end)
  /\ displayed' = Null
  /\ displayContent' = <<>>
  /\ applied' = <<>>
  /\ UNCHANGED <<value, catharsisItems>>

handleStressSelection ==
  /\ selectionRange # NoRange
  /\ Len(value) + 2 <= MaxContent
  /\ catharsisItems < MaxItems
  /\ catharsisItems' = catharsisItems + 1
  /\ LET before == substring(value, 0, selectionRange.start)
         selected == substring(value, selectionRange.start, selectionRange.end)
         after == substring(value, selectionRange.end, Len(value))
     IN value' = before \o <<Open>> \o selected \o <<Close>> \o after
  /\ selectionRange' = NoRange
  /\ selectedText' = <<>>
  /\ displayed' = Null
  /\ displayContent' = <<>>
  /\ applied' = <<>>

\* the read-only view of the text by one of the components; a read-only
\* editor takes no selection
Display(conv) ==
  /\ selectionRange = NoRange
  /\ displayed' = conv
  /\ LET out == Rendered(conv, value)
     IN /\ displayContent' = out.html
        /\ applied' = out.applied
  /\ UNCHANGED <<value, selectionRange, selectedText, catharsisItems>>

TextInit == InitWith(Document(1))

EscNext ==
  \/ \E t \in PlainAlphabet : handleInput(t, MaxPlain) /\ UNCHANGED offText
  \/ \E conv \in Converters : Display(conv) /\ UNCHANGED offText

EscSpec == TextInit /\ [][EscNext]_vars

MarkNext ==
  \/ \E t \in MarkAlphabet : handleInput(t, MaxContent) /\ UNCHANGED offText
  \/ \E start \in 0..MaxContent, end \in 0..MaxContent :
       handleTextSelection(start, end) /\ UNCHANGED offText
  \/ handleStressSelection /\ UNCHANGED offText
  \/ \E conv \in Converters : Display(conv) /\ UNCHANGED offText

MarkSpec == TextInit /\ [][MarkNext]_vars

\* the editor with keys that take text out while the popover is open
TagAlphabet == {"x", "p"}

TagNext ==
  \/ \E t \in TagAlphabet : handleInput(t, MaxPlain) /\ UNCHANGED offText
  \/ \E p \in 0..MaxContent : handleInputDeleted(p) /\ UNCHANGED offText
  \/ \E start \in 0..MaxContent, end \in 0..MaxContent :
       handleTextSelection(start, end) /\ UNCHANGED offText
  \/ handleStressSelection /\ UNCHANGED offText

TagSpec == TextInit /\ [][TagNext]_vars

\* ------------------------------------------- saving a tagged entry
\* The editor of SaveSpec with the tagging of its paragraph and the processing
\* of the tags.
PostSaveInit == InitWith(Document(1))

PostSaveNext ==
  \/ \E r \in 1..RandRange : srTagBlock(1, "stress", r) /\ UNCHANGED offLife
  \/ \E id \in StoredIds : srProcessAction(id, "trash") /\ UNCHANGED offLife
  \/ ClickSave /\ UNCHANGED offSave
  \/ \E i \in 1..MaxSaves : RouteOk(i) /\ UNCHANGED offSave
  \/ \E i \in 1..MaxSaves : RouteFail(i) /\ UNCHANGED offSave
  \/ \E i \in 1..MaxSaves : Settle(i) /\ UNCHANGED offSave

PostSaveSpec == PostSaveInit /\ [][PostSaveNext]_vars

\* ------------------------------------------------- catharsis items
\* One stored entry, open in a JournalEntry window, with the CatharsisFolder
\* on the desktop.  A catharsis list is the set of the ids of its items.

\* handleCatharsisUpdate: tagging in the editor hands over the list with one
\* more item
handleCatharsisUpdate ==
  /\ madeItems < MaxItems
  /\ madeItems' = madeItems + 1
  /\ entryCatharsisItems' = entryCatharsisItems \cup {madeItems + 1}
  /\ UNCHANGED <<srvCatharsis, entriesData, entryStale, entriesStale,
                 patches, removedItems, storedItems>>

\* handleCatharsisItemShredded (handleCatharsisItemTrashed has the same body
\* but for the sound): the editor's own list without the item
handleCatharsisItemShredded(itemId) ==
  /\ itemId \in entryCatharsisItems
  /\ entryCatharsisItems' = entryCatharsisItems \ {itemId}
  /\ removedItems' = removedItems \cup {itemId}
  /\ UNCHANGED <<srvCatharsis, entriesData, entryStale, entriesStale,
                 patches, madeItems, storedItems>>

\* the Save Entry button of a stored entry, disabled while the update is
\* pending: updateMutation sends the editor's whole list
updateMutation ==
  /\ Len(patches) < MaxPatches
  /\ \A k \in 1..Len(patches) : patches[k].by # "JournalEntry"
  /\ patches' = Append(patches, [by |-> "JournalEntry", catharsis |-> entryCatharsisItems])
  /\ UNCHANGED <<srvCatharsis, entryCatharsisItems, entriesData,
                 entryStale, entriesStale, madeItems, removedItems, storedItems>>

\* handleTrashItem and handleShredItem of the folder: removeCatharsisMutation
\* sends the list of its copy of the entry without the item
removeCatharsisMutation(catharsisId) ==
  /\ Len(patches) < MaxPatches
  /\ catharsisId \in entriesData
  /\ patches' = Append(patches, [by |-> "CatharsisFolder",
                                 catharsis |-> entriesData \ {catharsisId}])
  /\ removedItems' = removedItems \cup {catharsisId}
  /\ UNCHANGED <<srvCatharsis, entryCatharsisItems, entriesData,
                 entryStale, entriesStale, madeItems, storedItems>>

\* the PATCH route: storage.updateJournalEntry puts the list of the request in
\* the place of the stored one; onSuccess invalidates the queries
PatchRoute(k) ==
  /\ k \in 1..Len(patches)
  /\ srvCatharsis' = patches[k].catharsis
  /\ storedItems' = storedItems \cup patches[k].catharsis
  /\ patches' = SubSeq(patches, 1, k - 1) \o SubSeq(patches, k + 1, Len(patches))
  /\ entryStale' = TRUE
  /\ entriesStale' = TRUE
  /\ UNCHANGED <<entryCatharsisItems, entriesData, madeItems, removedItems>>

\* the entry query fetches again after a PATCH; the entry it brings has a new
\* updatedAt, so the effect on [entry] sets the editor's fields from it
refetchEntry ==
  /\ entryStale
  /\ entryStale' = FALSE
  /\ entryCatharsisItems' = srvCatharsis
  /\ UNCHANGED <<srvCatharsis, entriesData, entriesStale, patches, madeItems,
                 removedItems, storedItems>>

\* the folder's entries query fetches again
refetchEntries ==
  /\ entriesStale
  /\ entriesStale' = FALSE
  /\ entriesData' = srvCatharsis
  /\ UNCHANGED <<srvCatharsis, entryCatharsisItems, entryStale, patches,
                 madeItems, removedItems, storedItems>>

CatInit == InitWith(Document(1))

CatNext ==
  \/ handleCatharsisUpdate /\ UNCHANGED offCat
  \/ \E itemId \in 1..MaxItems : handleCatharsisItemShredded(itemId) /\ UNCHANGED offCat
  \/ updateMutation /\ UNCHANGED offCat
  \/ \E catharsisId \in 1..MaxItems :
       removeCatharsisMutation(catharsisId) /\ UNCHANGED offCat
  \/ \E k \in 1..MaxPatches : PatchRoute(k) /\ UNCHANGED offCat
  \/ refetchEntry /\ UNCHANGED offCat
  \/ refetchEntries /\ UNCHANGED offCat

CatSpec == CatInit /\ [][CatNext]_vars

\* ------------------------------------------------- the windows of Journal
\* Three versions of the page are in the source. In the first the z-index of
\* a window is the nextZIndex of the render that made the handler; a handler
\* kept inside a component stored in windows stays the one of the render
\* that stored it, so `closure` is the nextZIndex that handler sees.
WithoutId(s, windowId) ==
  LET keep(w) == w.id # windowId IN SelectSeq(s, keep)

\* the nextZIndex seen by the buttons of the main window when it is open, and
\* by the menu bar, which is rendered anew
NewEntryClosures ==
  {nextZIndex} \cup {windows[i].closure : i \in {j \in 1..Len(windows) :
                                                   windows[j].type = "main"}}

ClosuresOf(type) ==
  {windows[i].closure : i \in {j \in 1..Len(windows) : windows[j].type = type}}

\* the id of the window is made of Date.now(): one not in use
handleNewEntry(c, id) ==
  /\ nextZIndex < FirstZIndex + MaxZ
  /\ id \notin IdsOf(windows)
  /\ windows' = Append(windows, [id |-> id, type |-> "entry", zIndex |-> c,
                                  entryId |-> 0, closure |-> c])
  /\ nextZIndex' = nextZIndex + 1
  /\ front' = id
  /\ UNCHANGED <<stackWindows, zStack, topWindows, zTopRef>>

handleSearchEntries(c) ==
  /\ nextZIndex < FirstZIndex + MaxZ
  /\ LET keep(w) == w.type # "search"
     IN windows' = Append(SelectSeq(windows, keep),
                          [id |-> "search", type |-> "search", zIndex |-> c,
                           entryId |-> 0, closure |-> c])
  /\ nextZIndex' = nextZIndex + 1
  /\ front' = "search"
  /\ UNCHANGED <<stackWindows, zStack, topWindows, zTopRef>>

\* the search window asks for the view of entry 1
handleViewEntry(c) ==
  /\ nextZIndex < FirstZIndex + MaxZ
  /\ LET keep(w) == w.entryId # 1
     IN windows' = Append(SelectSeq(windows, keep),
                          [id |-> "view-1", type |-> "view", zIndex |-> c,
                           entryId |-> 1, closure |-> c])
  /\ nextZIndex' = nextZIndex + 1
  /\ front' = "view-1"
  /\ UNCHANGED <<stackWindows, zStack, topWindows, zTopRef>>

\* onSave of an entry window: the search window gets a new component
handleSaveEntry(c) ==
  /\ windows' = [i \in 1..Len(windows) |->
                  IF windows[i].type = "search"
                  THEN [windows[i] EXCEPT !.closure = c]
                  ELSE windows[i]]
  /\ UNCHANGED <<nextZIndex, front, stackWindows, zStack, topWindows, zTopRef>>

closeWindow(windowId) ==
  /\ windowId \in IdsOf(windows)
  /\ windows' = WithoutId(windows, windowId)
  /\ UNCHANGED <<nextZIndex, front, stackWindows, zStack, topWindows, zTopRef>>

bringToFront(windowId) ==
  /\ nextZIndex < FirstZIndex + MaxZ
  /\ windowId \in IdsOf(windows)
  /\ windows' = [i \in 1..Len(windows) |->
                  IF windows[i].id = windowId
                  THEN [windows[i] EXCEPT !.zIndex = nextZIndex]
                  ELSE windows[i]]
  /\ nextZIndex' = nextZIndex + 1
  /\ front' = windowId
  /\ UNCHANGED <<stackWindows, zStack, topWindows, zTopRef>>

JournalInit == InitWith(Document(1))

JournalNext ==
  \/ \E c \in NewEntryClosures, id \in EntryIds :
       handleNewEntry(c, id) /\ UNCHANGED offWin
  \/ \E c \in NewEntryClosures : handleSearchEntries(c) /\ UNCHANGED offWin
  \/ \E c \in ClosuresOf("search") : handleViewEntry(c) /\ UNCHANGED offWin
  \/ \E c \in ClosuresOf("entry") : handleSaveEntry(c) /\ UNCHANGED offWin
  \/ \E windowId \in WindowIds : closeWindow(windowId) /\ UNCHANGED offWin
  \/ \E windowId \in WindowIds : bringToFront(windowId) /\ UNCHANGED offWin

JournalSpec == JournalInit /\ [][JournalNext]_vars

\* The second version: the z-index of a window is BASE_Z plus its place in
\* the windows sorted by their place in zStack.
StackPlace(id) ==
  IF \E i \in 1..Len(zStack) : zStack[i] = id
  THEN CHOOSE i \in 1..Len(zStack) : zStack[i] = id
  ELSE 0

computedZIndex(id) ==
  BASE_Z + Cardinality({i \in 1..Len(stackWindows) :
                          StackPlace(stackWindows[i]) < StackPlace(id)})

WithoutWindow(s, windowId) ==
  LET keep(id) == id # windowId IN SelectSeq(s, keep)

zStackOpenWindow(id) ==
  /\ stackWindows' = Append(WithoutWindow(stackWindows, id), id)
  /\ zStack' = Append(WithoutWindow(zStack, id), id)
  /\ front' = id
  /\ UNCHANGED <<windows, nextZIndex, topWindows, zTopRef>>

zStackBringToFront(windowId) ==
  /\ \E i \in 1..Len(stackWindows) : stackWindows[i] = windowId
  /\ zStack' = Append(WithoutWindow(zStack, windowId), windowId)
  /\ front' = windowId
  /\ UNCHANGED <<windows, nextZIndex, stackWindows, topWindows, zTopRef>>

zStackCloseWindow(windowId) ==
  /\ \E i \in 1..Len(stackWindows) : stackWindows[i] = windowId
  /\ stackWindows' = WithoutWindow(stackWindows, windowId)
  /\ zStack' = WithoutWindow(zStack, windowId)
  /\ UNCHANGED <<windows, nextZIndex, front, topWindows, zTopRef>>

ZStackNext ==
  \/ \E id \in OpenableIds : zStackOpenWindow(id) /\ UNCHANGED offWin
  \/ \E id \in WindowIds : zStackBringToFront(id) /\ UNCHANGED offWin
  \/ \E id \in WindowIds : zStackCloseWindow(id) /\ UNCHANGED offWin

ZStackSpec == JournalInit /\ [][ZStackNext]_vars

\* The third version: every open and every focus takes ++zTopRef.current.
topOpenWindow(id) ==
  /\ zTopRef < FirstTop + MaxZ
  /\ zTopRef' = zTopRef + 1
  /\ topWindows' = Append(WithoutId(topWindows, id),
                          [id |-> id, zIndex |-> zTopRef + 1])
  /\ front' = id
  /\ UNCHANGED <<windows, nextZIndex, stackWindows, zStack>>

topBringToFront(windowId) ==
  /\ zTopRef < FirstTop + MaxZ
  /\ windowId \in IdsOf(topWindows)
  /\ zTopRef' = zTopRef + 1
  /\ topWindows' = [i \in 1..Len(topWindows) |->
                     IF topWindows[i].id = windowId
                     THEN [topWindows[i] EXCEPT !.zIndex = zTopRef + 1]
                     ELSE topWindows[i]]
  /\ front' = windowId
  /\ UNCHANGED <<windows, nextZIndex, stackWindows, zStack>>

topCloseWindow(windowId) ==
  /\ windowId \in IdsOf(topWindows)
  /\ topWindows' = WithoutId(topWindows, windowId)
  /\ UNCHANGED <<windows, nextZIndex, stackWindows, zStack, zTopRef, front>>

ZTopNext ==
  \/ \E id \in OpenableIds : topOpenWindow(id) /\ UNCHANGED offWin
  \/ \E id \in WindowIds : topBringToFront(id) /\ UNCHANGED offWin
  \/ \E id \in WindowIds : topCloseWindow(id) /\ UNCHANGED offWin

ZTopSpec == JournalInit /\ [][ZTopNext]_vars

\* ---------------------------------------------------------------- claims
Triple(h) == <<h.state, h.action, h.processedAt>>

\* C1: at every moment an annotation is in state "processed" exactly when its
\* action is set; a "new" annotation has no action.
LifecycleExclusive ==
  \A i \in 1..Len(sr_highlights) :
    (sr_highlights[i].state = "processed") <=> (sr_highlights[i].action # Null)

\* a processed annotation next to one that an undo has put back to new
LifecycleExclusiveWitness ==
  /\ lastOp = Left("handleUndo", "done")
  /\ \E i, j \in 1..Len(sr_highlights) :
       /\ sr_highlights[i].state = "processed" /\ sr_highlights[i].action # Null
       /\ sr_highlights[j].state = "new" /\ sr_highlights[j].action = Null

\* C2: a process step leaves every annotation that is already processed as it
\* is: its action and processedAt are not overwritten.
ProcessOnlyNew ==
  [][lastOp'.op \in {"srProcessAction", "handleProcessAction"} =>
       \A i \in 1..Len(sr_highlights) :
         sr_highlights[i].state = "processed" =>
           Triple(sr_highlights'[i]) = Triple(sr_highlights[i])]_vars

\* the id the ProcessScreen has just processed: the one of the entry it pushed
PushedId == undoStack'[Len(undoStack')].id

\* C3: when the ProcessScreen processes an annotation that is new, undoing it
\* from the state reached gives back the state, action and processedAt it had
\* before, which are "new", none and none.
UndoRestoresPrior ==
  [][lastOp'.op = "handleProcessAction" =>
       LET i == FindIndex(sr_highlights, PushedId)
           after == UndoneHighlights(sr_highlights', undoStack', PushedId)
       IN (i # 0 /\ sr_highlights[i].state = "new") =>
            /\ Triple(sr_highlights'[i]) # Triple(sr_highlights[i])
            /\ Triple(after[i]) = Triple(sr_highlights[i])
            /\ Triple(after[i]) = <<"new", Null, NoTime>>]_vars

\* an undo has run in the ProcessScreen and the annotation is new again, with
\* nothing left to undo
UndoRestoresPriorWitness ==
  /\ lastOp = Left("handleUndo", "done")
  /\ undoStack = <<>>
  /\ highlights # <<>>
  /\ \A i \in 1..Len(sr_highlights) : Triple(sr_highlights[i]) = <<"new", Null, NoTime>>
  /\ sysUndoStack # <<>>

\* C4: an undo for an id the undo log has no entry for changes nothing in the
\* store, the queue or the undo log.
UndoWithoutEntryIsNoOp ==
  [][\A id \in KnownIds :
       (handleUndo(id) /\ FindIndex(undoStack, id) = 0) =>
         UNCHANGED <<sr_highlights, sr_queue, undoStack, sysUndoStack, highlights,
                     processedCount>>]_vars

\* an undo has been asked for a processed annotation with an empty undo log
UndoWithoutEntryWitness ==
  /\ lastOp = Left("handleUndo", "noop")
  /\ undoStack = <<>>
  /\ \E i \in 1..Len(sr_highlights) : sr_highlights[i].state = "processed"

\* C5: every processed annotation can be undone: the ProcessScreen is there and
\* its undo puts the annotation back to new, also after it was closed and
\* opened again.
AlwaysUndoable ==
  lastOp.op = "mount" =>
    \A i \in 1..Len(sr_highlights) :
      sr_highlights[i].state = "processed" =>
        UndoneHighlights(sr_highlights, undoStack, sr_highlights[i].id)[i].state = "new"

\* C6: a process step that changes an annotation pushes exactly one record on
\* the instance's undo stack, and the record holds the annotation's id and the
\* state and action it had before the step.
UndoRecordTrue ==
  [][lastOp'.op \in {"srProcessAction", "handleProcessAction"} =>
       \A i \in 1..Len(sr_highlights) :
         sr_highlights'[i] # sr_highlights[i] =>
           /\ Len(sysUndoStack') = Len(sysUndoStack) + 1
           /\ sysUndoStack'[Len(sysUndoStack')].data =
                [highlightId |-> sr_highlights[i].id,
                 previousState |-> sr_highlights[i].state,
                 previousAction |-> sr_highlights[i].action]]_vars

\* C7: each annotation has exactly one queue entry with its id, the entry has
\* the annotation's entryId and emotion and is "queued" exactly when the
\* annotation is new and "done" exactly when it is processed, and every queue
\* entry belongs to an annotation.
QueueOf(id) == SelectSeq(sr_queue, LAMBDA q : q.highlightId = id)

QueueIsProjection ==
  /\ \A i \in 1..Len(sr_highlights) :
       LET h == sr_highlights[i]
           qs == QueueOf(h.id)
       IN /\ Len(qs) = 1
          /\ qs[1].entryId = h.entryId
          /\ qs[1].emotion = h.emotion
          /\ (qs[1].state = "queued") <=> (h.state = "new")
          /\ (qs[1].state = "done") <=> (h.state = "processed")
  /\ \A j \in 1..Len(sr_queue) : sr_queue[j].highlightId \in StoredIds

\* C8: there is never more than one save of the editor's entry in flight,
\* whether it was started with the Save button or with Cmd/Ctrl+S.
SavesSerialized == Cardinality(InFlight) <= 1

\* C9: however often a new-entry editor is saved, the server holds at most one
\* record for it.
NoDuplicateEntries == Len(entries) <= 1

\* the two boundary points of the range lie in paragraphs, and not in the same
CrossBlock(sel) ==
  /\ BlockOf(sel.sc) # NoBlock
  /\ BlockOf(sel.ec) # NoBlock
  /\ BlockOf(sel.sc) # BlockOf(sel.ec)

BlocksOf(id) == {b \in 1..Len(dom) : \E k \in 1..Len(dom[b]) : id \in ChainIds(dom[b][k])}

RangeIndexes == {i \in 1..Len(sr_highlights) : sr_highlights[i].type = "range"}

\* C11: the store never holds two range annotations of one paragraph whose
\* offset intervals [start, end) have a position in common.
NoOverlap ==
  \A i, j \in RangeIndexes :
    (/\ i < j
     /\ sr_highlights[i].id # sr_highlights[j].id
     /\ BlocksOf(sr_highlights[i].id) \cap BlocksOf(sr_highlights[j].id) # {}) =>
      ~(sr_highlights[i].start < sr_highlights[j].end
        /\ sr_highlights[j].start < sr_highlights[i].end)

\* C12: the offsets of a stored range annotation are positions in the text of
\* the paragraph its span stands in: 0 <= start < end <= length of that text.
OffsetsInBlock ==
  \A i \in RangeIndexes : \A b \in BlocksOf(sr_highlights[i].id) :
    /\ 0 <= sr_highlights[i].start
    /\ sr_highlights[i].start < sr_highlights[i].end
    /\ sr_highlights[i].end <= BlockText(b)

\* C13: after the entry has been stored and loaded again the paragraphs have
\* their texts, and every stored annotation of the entry, range or block, is
\* on the document again.
RoundTrip ==
  lastOp.op = "srInitEditor" =>
    \A i \in 1..Len(sr_highlights) :
      sr_highlights[i].id \in
        DomIds \cup RestoredRanges(sr_highlights) \cup RestoredBlocks(sr_highlights, blockIds)

\* C18: removing the tag id leaves no record with that id in the store and no
\* queue entry for it, and keeps every other record and queue entry, in order.
RemoveDeletesOnly ==
  [][\A id \in StoredIds :
       srRemoveTag(id) =>
         /\ \A i \in 1..Len(sr_highlights') : sr_highlights'[i].id # id
         /\ \A j \in 1..Len(sr_queue') : sr_queue'[j].highlightId # id
         /\ sr_highlights' = SelectSeq(sr_highlights, LAMBDA h : h.id # id)
         /\ sr_queue' = SelectSeq(sr_queue, LAMBDA q : q.highlightId # id)]_vars

\* a tag has been removed and a processed annotation with its queue entry is
\* still there
RemoveDeletesOnlyWitness ==
  /\ lastOp = Left("srRemoveTag", "done")
  /\ Len(sr_highlights) = 1
  /\ sr_highlights[1].state = "processed"
  /\ Len(sr_queue) = 1
  /\ sr_queue[1].state = "done"

\* C19: setting the intent of the annotation id changes the intent field of
\* one record with that id and nothing else: no other field of any record,
\* no record of another id, no queue entry.
SetIntentOnly ==
  [][\A id \in DomIds :
       updateHighlightIntent(id, "shred") =>
         /\ Len(sr_highlights') = Len(sr_highlights)
         /\ \A i \in 1..Len(sr_highlights) :
              /\ [sr_highlights'[i] EXCEPT !.intent = sr_highlights[i].intent]
                   = sr_highlights[i]
              /\ sr_highlights[i].id # id => sr_highlights'[i] = sr_highlights[i]
         /\ Cardinality({i \in 1..Len(sr_highlights) :
                           sr_highlights'[i] # sr_highlights[i]}) <= 1
         /\ sr_queue' = sr_queue]_vars

\* the intent of a processed annotation has just been set
SetIntentOnlyWitness ==
  /\ lastOp = Left("updateHighlightIntent", "done")
  /\ \E i \in 1..Len(sr_highlights) :
       /\ sr_highlights[i].state = "processed"
       /\ sr_highlights[i].action = "trash"
       /\ sr_highlights[i].intent = "shred"

\* C20: no two records of the store have the same id.
IdsUnique ==
  \A i, j \in 1..Len(sr_highlights) :
    i # j => sr_highlights[i].id # sr_highlights[j].id

\* C17: when the trash-day check runs, the banner is put up exactly when a
\* review is recorded that lies 7 days or more back and some annotation is in
\* state new.
BannerIffDue ==
  lastOp.op = "constructor" =>
    ((banners > 0) <=>
       /\ sr_lastReview # NoTime
       /\ now - sr_lastReview >= sevenDays
       /\ \E i \in 1..Len(sr_highlights) : sr_highlights[i].state = "new")

\* C14: a text without markers is shown as it was typed: every &, < and >
\* of it appears as that character, none is taken for markup, none is
\* escaped twice.
ShownAsTyped ==
  displayed # Null => BrowserText(displayContent, 1) = value

SpanCount(html) == Cardinality({i \in 1..Len(html) : html[i] = "<span>"})

\* C15: marker-like text that was typed makes no annotation: the view holds
\* no more stress spans than tags were made, and while no tag was made the
\* typed markers are shown as typed.
NoUncreatedAnnotation ==
  displayed # Null =>
    /\ SpanCount(displayContent) <= catharsisItems
    /\ (catharsisItems = 0 =>
          \A t \in {Open, Close} :
            Cardinality({i \in 1..Len(value) : value[i] = t}) =
              Cardinality({i \in 1..Len(displayContent) : displayContent[i] = t}))

Rank(rule) ==
  CASE rule = "heading" -> 1
    [] rule = "list" -> 2
    [] rule \in {"span", "highlight"} -> 3
    [] rule = "bold" -> 4
    [] rule = "italic" -> 5
    [] rule = "underline" -> 6
    [] OTHER -> 0

Formatting(log) == SelectSeq(log, LAMBDA rule : Rank(rule) > 0)

OpeningTags == {"<h1>", "<span>", "<strong>", "<em>", "<u>"}

\* the markup is one run of text inside all of its elements
SameRun(html) ==
  \E k \in 0..Len(html), m \in 1..Len(html) :
    /\ k < m
    /\ \A i \in 1..k : html[i] \in OpeningTags
    /\ \A i \in (k + 1)..m : html[i] \notin GeneratedTags
    /\ \A i \in (m + 1)..Len(html) : html[i] \in GeneratedTags \ OpeningTags

\* C16: when several rules apply to one run of text, they were applied in the
\* order heading, list, span, bold, italic, underline.
FixedPrecedence ==
  (displayed # Null /\ SameRun(displayContent)) =>
    \A i \in 1..Len(Formatting(applied)), j \in 1..Len(Formatting(applied)) :
      i < j => Rank(Formatting(applied)[i]) <= Rank(Formatting(applied)[j])

\* C21: after the entry has been loaded into the editor, the store holds no
\* block annotation of the entry whose blockId is not the data-block-id of a
\* paragraph of the document.
NoDanglingAfterLoad ==
  lastOp.op = "srInitEditor" =>
    \A i \in 1..Len(sr_highlights) :
      (sr_highlights[i].entryId = EntryId /\ sr_highlights[i].type = "block") =>
        \E b \in 1..Len(blockIds) : blockIds[b] = sr_highlights[i].blockId

\* C22: a tagging request with a collapsed selection, or with one that holds
\* no character, makes no annotation and no queue entry and leaves the
\* document as it was.
ZeroLengthRejected ==
  [][\A sel \in Selections, r \in 1..RandRange :
       ((isCollapsed(sel) \/ SelectedLength(sel) = 0)
          /\ srWrapSelection(sel, "highlight", Null, r)) =>
         /\ lastOp'.out # "ok"
         /\ (isCollapsed(sel) => lastOp'.out = "return")
         /\ UNCHANGED <<sr_highlights, sr_queue, dom>>]_vars

\* a collapsed selection has just been turned down with a tag in the store
ZeroLengthRejectedWitness ==
  /\ lastOp = [op |-> "srWrapSelection", out |-> "return"]
  /\ sr_highlights # <<>>
  /\ Len(sr_queue) = Len(sr_highlights)

\* the step adds one record at the end of the store and one queue entry for
\* its id at the end of the queue
AddsOnePair ==
  /\ Len(sr_highlights') = Len(sr_highlights) + 1
  /\ SubSeq(sr_highlights', 1, Len(sr_highlights)) = sr_highlights
  /\ Len(sr_queue') = Len(sr_queue) + 1
  /\ SubSeq(sr_queue', 1, Len(sr_queue)) = sr_queue
  /\ sr_queue'[Len(sr_queue')].highlightId = sr_highlights'[Len(sr_highlights')].id
  /\ sr_queue'[Len(sr_queue')].state = "queued"
  /\ sr_highlights'[Len(sr_highlights')].state = "new"

NoLostUpdate ==
  /\ \A i \in storedItems : i \in srvCatharsis \/ i \in removedItems
  /\ (patches = <<>> /\ entryCatharsisItems = srvCatharsis) =>
       srvCatharsis \cap removedItems = {}

\* C23: when a save of an entry with an annotation in state new has succeeded
\* and its callbacks have run, the Post-Entry Ritual modal is in the page.
RitualAfterSave ==
  [][\A i \in 1..MaxSaves :
       (/\ Settle(i)
        /\ requests[i].stage = "ok"
        /\ \E k \in 1..Len(sr_highlights) :
             sr_highlights[k].entryId = EntryId /\ sr_highlights[k].state = "new")
       => ritual' > 0]_vars

\* C26: an undo for an annotation that was processed in the ProcessScreen and
\* then removed changes neither the store nor the queue, and no record and no
\* queue entry of that id is there afterwards.
RemovedStaysRemoved ==
  [][\A id \in KnownIds :
       (handleUndo(id) /\ FindIndex(undoStack, id) # 0 /\ id \notin StoredIds) =>
         /\ UNCHANGED <<sr_highlights, sr_queue>>
         /\ id \notin IdsOf(sr_highlights')
         /\ FindQueueIndex(sr_queue', id) = 0]_vars

\* an undo has just been asked for an annotation the undo log knows and the
\* store does not
RemovedStaysRemovedWitness ==
  /\ lastOp = Left("handleUndo", "noop")
  /\ \E u \in 1..Len(undoStack) : undoStack[u].id \notin StoredIds

\* C27: while the ProcessScreen is open the remaining count it shows is the
\* number of annotations in state new.
RemainingIsNew ==
  mounted =>
    remainingCount =
      Cardinality({i \in 1..Len(sr_highlights) : sr_highlights[i].state = "new"})

\* C28: Snooze and the end of a processing session record the time of the
\* step as the last review, nothing else changes that record, and a page
\* loaded less than 7 days after it puts up no banner.
NotDueAfterReview ==
  [][/\ (BannerSnooze \/ handleComplete) => sr_lastReview' = now
     /\ sr_lastReview' # sr_lastReview => sr_lastReview' = now
     /\ (constructor /\ sr_lastReview # NoTime /\ now - sr_lastReview < sevenDays)
          => banners' = 0]_vars

\* a page has just been loaded 6 days after the last review, with an item
\* queued, and shows no banner
NotDueAfterReviewWitness ==
  /\ lastOp = Left("constructor", "done")
  /\ sr_lastReview # NoTime
  /\ now - sr_lastReview = sevenDays - Day
  /\ Len(Queued(sr_queue)) > 0
  /\ banners = 0

\* the text without its stress markers
RECURSIVE StripMarkers(_)
StripMarkers(text) ==
  IF text = <<>> THEN <<>>
  ELSE IF text[1] \in {Open, Close} THEN StripMarkers(Tail(text))
       ELSE <<text[1]>> \o StripMarkers(Tail(text))

\* C29: choosing the stress level puts one opening and one closing marker
\* around exactly the characters that were selected and changes nothing else
\* of the text, whatever was done to the text after the selection was made.
MarkersAroundSelected ==
  [][handleStressSelection =>
       /\ \E k \in 0..Len(value) :
            value' = SubSeq(value, 1, k) \o <<Open>> \o selectedText
                       \o <<Close>>
                       \o SubSeq(value, k + Len(selectedText) + 1, Len(value))
       /\ StripMarkers(value') = StripMarkers(value)]_vars

ZIndexOf(s, id) == s[FindIndex(s, id)].zIndex

\* C30: the window most recently opened or brought to the front, while it is
\* open, has a z-index strictly greater than that of every other open window.
FrontIsTopmost ==
  front \in IdsOf(windows) =>
    \A i \in 1..Len(windows) :
      windows[i].id # front => windows[i].zIndex < ZIndexOf(windows, front)

\* the same of the version that keeps zStack
FrontIsTopmostOfStack ==
  (\E i \in 1..Len(stackWindows) : stackWindows[i] = front) =>
    \A i \in 1..Len(stackWindows) :
      stackWindows[i] # front =>
        computedZIndex(stackWindows[i]) < computedZIndex(front)

\* the same of the version that keeps zTopRef
FrontIsTopmostOfTop ==
  front \in IdsOf(topWindows) =>
    \A i \in 1..Len(topWindows) :
      topWindows[i].id # front =>
        topWindows[i].zIndex < ZIndexOf(topWindows, front)

====
